---- MODULE Spec2Model ----
(***************************************************************************)
(* Model of the parallel demangling pipeline: main.py (process_entry,      *)
(* process_batch, process_mapping_file) and demangle.py                    *)
(* (demangle_with_cxxfilt, get_bare_function_name).                        *)
(*                                                                         *)
(* A Python str is a sequence of one-character strings.  A Python value    *)
(* that may be None, a str or a tuple of strs is a record [kind, items].   *)
(* An exception leaving a function is the value Raise.                     *)
(***************************************************************************)
EXTENDS Integers, Sequences, FiniteSets, TLC

\* ------------------------------------------------------------------ bounds
MaxLen == 4          \* longest enumerated text in the normalizer harness
MaxRecords == 12     \* largest RecordSet of a run
MaxCpus == 3         \* largest multiprocessing.cpu_count()
MaxTotal == 90       \* most eligible items of a run in the batch sizing

\* ------------------------------------------------------- program constants
NUM_THREADS_PER_PROCESS == 4
MinBatchSize == 10
BatchFactor == 4

\* ----------------------------------------------------------- Python values
None == [kind |-> "None", items |-> <<>>]
Raise == [kind |-> "raise", items |-> <<>>]
Str(s) == [kind |-> "str", items |-> <<s>>]
Tuple(a, b) == [kind |-> "tuple", items |-> <<a, b>>]

\* the value of an expression evaluated once, as Python evaluates the
\* argument of a call before the call: Only({f(v) : v \in {e}}) is f(e)
Only(S) == CHOOSE r \in S : TRUE

SetMin(S) == Only({(CHOOSE x \in T : \A y \in T : x <= y) : T \in {S}})
SetMax(S) == Only({(CHOOSE x \in T : \A y \in T : x >= y) : T \in {S}})

VARIABLES
  cxxfilt,            \* the external primitive: raw symbol -> outcome of c++filt -p
  NUM_PROCESSES,      \* main.py:17
  pc,                 \* position of process_mapping_file
  input_status,       \* "ok", "missing" or "malformed": the input file
  input_file,         \* the RecordSet in the input file
  mapping,            \* the loaded RecordSet, updated in place by the merge
  entries_to_process, \* eligible WorkItems, in order
  batches,            \* the slices submitted to the process pool
  future,             \* state of each batch's future
  collected,          \* the futures as_completed has yielded so far
  next_item,          \* per batch: number of items its thread pool has started
  running,            \* per batch: items whose process_entry is in progress
  batch_results,      \* per batch: the local results dict of process_batch
  results,            \* the global results dict
  pbar,               \* the progress counter
  entries_processed,
  output_file,        \* what json.dump wrote last
  writes,             \* number of times the output file was written
  ret,                \* return value of process_mapping_file
  sym,                \* harness: the raw symbol handed to the normalizer
  bare_result,        \* harness: value of get_bare_function_name(sym)
  entry_result,       \* harness: value of process_entry(sym)
  entry_demangled,     \* process_entry in steps: its local after line 28
  invocations         \* process_entry in steps: runs of c++filt so far

orchVars == <<NUM_PROCESSES, pc, input_status, input_file, mapping, entries_to_process, batches,
              future, collected, next_item, running, batch_results, results, pbar,
              entries_processed, output_file, writes, ret>>
normVars == <<sym, bare_result, entry_result, entry_demangled, invocations>>
vars == <<cxxfilt, orchVars, normVars>>

\* -------------------------------------------------------------- demangle.py
Whitespace == {" ", "\t", "\n", "\r", "\f"}

\* str.strip()
Strip(s) ==
  LET ix == {i \in 1..Len(s) : s[i] \notin Whitespace}
  IN IF ix = {} THEN <<>> ELSE SubSeq(s, SetMin(ix), SetMax(ix))

\* outcomes of subprocess.run(['c++filt', '-p', s], check=True)
Ok(out) == [exit |-> "ok", stdout |-> out]
CalledProcessError == [exit |-> "CalledProcessError", stdout |-> <<>>]
FileNotFoundError == [exit |-> "FileNotFoundError", stdout |-> <<>>]
OSError == [exit |-> "OSError", stdout |-> <<>>]

demangle_with_cxxfilt(mangled_symbol) ==
  LET r == cxxfilt[mangled_symbol]
  IN IF r.exit = "ok" THEN Str(Strip(r.stdout))
     ELSE IF r.exit \in {"CalledProcessError", "FileNotFoundError"} THEN None
     ELSE Raise

\* re.search(r'.*::([^(]+)', demangled): the text of group 1, or NoMatch
NoMatch == <<"NoMatch">>
QualAt(d, i) == i + 2 <= Len(d) /\ d[i] = ":" /\ d[i+1] = ":" /\ d[i+2] # "("
QualCand(d, p) ==
  {i \in p..Len(d) : QualAt(d, i) /\ \A j \in p..(i-1) : d[j] # "\n"}
SearchQualifier(d) ==
  LET starts == {p \in 1..Len(d) : QualCand(d, p) # {}}
      Group(i) ==
        SubSeq(d, i + 2, SetMax({j \in (i+2)..Len(d) : \A k \in (i+2)..j : d[k] # "("}))
      MatchFrom(p) == Only({Group(i) : i \in {SetMax(QualCand(d, p))}})
  IN IF starts = {} THEN NoMatch ELSE Only({MatchFrom(p) : p \in {SetMin(starts)}})

\* Step 1
StripQualification(demangled) ==
  Only({IF m # NoMatch THEN m ELSE demangled : m \in {SearchQualifier(demangled)}})

\* re.sub(open + '.*' + close, '', s): greedy, '.' does not match a newline
RECURSIVE SubGreedy(_, _, _, _)
SubGreedy(s, pos, open, close) ==
  IF pos > Len(s) THEN <<>>
  ELSE LET ends == {q \in (pos+1)..Len(s) :
                      s[q] = close /\ \A j \in (pos+1)..(q-1) : s[j] # "\n"}
       IN IF s[pos] = open /\ ends # {}
          THEN Only({SubGreedy(s, p, open, close) : p \in {SetMax(ends) + 1}})
          ELSE <<s[pos]>> \o SubGreedy(s, pos + 1, open, close)

\* re.sub(r'<[^>]*>', '', s)
RECURSIVE SubAngle(_, _)
SubAngle(s, pos) ==
  IF pos > Len(s) THEN <<>>
  ELSE LET ends == {q \in (pos+1)..Len(s) : s[q] = ">"}
       IN IF s[pos] = "<" /\ ends # {}
          THEN Only({SubAngle(s, p) : p \in {SetMin(ends) + 1}})
          ELSE <<s[pos]>> \o SubAngle(s, pos + 1)

\* re.sub(r'<[^>]*>', '', s, count=1)
RECURSIVE SubAngleOnce(_, _)
SubAngleOnce(s, pos) ==
  IF pos > Len(s) THEN <<>>
  ELSE LET ends == {q \in (pos+1)..Len(s) : s[q] = ">"}
       IN IF s[pos] = "<" /\ ends # {}
          THEN SubSeq(s, SetMin(ends) + 1, Len(s))
          ELSE <<s[pos]>> \o SubAngleOnce(s, pos + 1)
StripFirstTemplateArgs(s) == SubAngleOnce(s, 1)

\* Step 2
StripParameterList(s) == SubGreedy(s, 1, "(", ")")
\* Step 3
StripTemplateArgs(s) == SubAngle(s, 1)
\* Step 4
StripAbiTags(s) == SubGreedy(s, 1, "[", "]")

\* Steps 2-4 and the final strip()
Reduce234(s) ==
  Only({Strip(s4) :
          s4 \in {StripAbiTags(s3) :
                    s3 \in {StripTemplateArgs(s2) : s2 \in {StripParameterList(s)}}}})

\* the empty-string fallback of lines 76-79
BareOrFallback(demangled, bare_name) ==
  IF bare_name = <<>> THEN demangled ELSE bare_name

\* the text the reduction of a full name gives
BareOf(demangled) ==
  Only({BareOrFallback(demangled, bare_name) :
          bare_name \in {Reduce234(s1) : s1 \in {StripQualification(d) : d \in {demangled}}}})

get_bare_function_name(mangled_symbol) ==
  LET d == demangle_with_cxxfilt(mangled_symbol)
  IN IF d = Raise THEN Raise
     ELSE LET demangled == IF d = None THEN mangled_symbol ELSE d.items[1]
          IN Tuple(demangled, BareOf(demangled))

\* ------------------------------------------------------------------ main.py
\* a Result is the tuple process_entry returns
Result(demangled_name, bare_name) == <<demangled_name, bare_name>>
FailureResult == Result(None, None)

\* an exception leaving process_entry (future.result() re-raises it)
RaisedResult == Result(Raise, Raise)

process_entry(function_name) ==
  IF function_name = <<>> THEN FailureResult
  ELSE LET d == demangle_with_cxxfilt(function_name)
       IN IF d = Raise THEN RaisedResult
          ELSE LET demangled_name == IF d = None THEN Str(function_name) ELSE d
                   Store(bare_name) ==
                     IF bare_name = Raise THEN RaisedResult
                     ELSE Result(demangled_name, bare_name)
               IN Only({Store(bare_name) : bare_name \in {get_bare_function_name(function_name)}})

\* the exception is stored as if it were a Result
CollectEntryUnguarded(r) == r

\* lines 46-50 of process_batch: the entry stored for one completed future
CollectEntry(r) == IF r = RaisedResult THEN FailureResult ELSE r

\* ------------------------------------------------------------- the records
Absent == [kind |-> "absent", items |-> <<>>]
Entry(key, fn) ==
  [key |-> key, function_name |-> fn, demangled_name |-> Absent, bare_name |-> Absent]

\* an empty symbol is taken too
EligibleWhenPresent(entry) == entry.function_name.kind = "str"

\* "function_name" in entry and entry["function_name"]
Eligible(entry) ==
  entry.function_name.kind = "str" /\ entry.function_name.items[1] # <<>>

WorkItem(entry) == <<entry.key, entry.function_name.items[1]>>

\* lines 102-105
RECURSIVE PrepareEntries(_)
PrepareEntries(m) ==
  IF m = <<>> THEN <<>>
  ELSE (IF Eligible(Head(m)) THEN <<WorkItem(Head(m))>> ELSE <<>>)
       \o PrepareEntries(Tail(m))

Maximum(a, b) == IF a >= b THEN a ELSE b
Minimum(a, b) == IF a <= b THEN a ELSE b

\* the processes are not multiplied by the factor
BatchSizePerProcess(total_entries, num_processes) ==
  Maximum(MinBatchSize, total_entries \div num_processes)

\* line 113
BatchSize(total_entries, num_processes) ==
  Maximum(MinBatchSize, total_entries \div (num_processes * BatchFactor))

\* slices that run one item too far
BatchesOverlapping(entries, batch_size) ==
  [k \in 1..((Len(entries) + batch_size - 1) \div batch_size) |->
     SubSeq(entries, (k - 1) * batch_size + 1,
            Minimum(k * batch_size + 1, Len(entries)))]

\* line 114: entries[i:i + batch_size] for i in range(0, len(entries), batch_size)
Batches(entries, batch_size) ==
  [k \in 1..((Len(entries) + batch_size - 1) \div batch_size) |->
     SubSeq(entries, (k - 1) * batch_size + 1, Minimum(k * batch_size, Len(entries)))]

EmptyDict == [k \in {} |-> FailureResult]

\* dict.update
Update(d, other) ==
  [k \in DOMAIN d \cup DOMAIN other |-> IF k \in DOMAIN other THEN other[k] ELSE d[k]]

\* the failure marker is not looked at
UpdatableAnyResult(entry, res) == entry.key \in DOMAIN res

\* line 139
Updatable(entry, res) == entry.key \in DOMAIN res /\ res[entry.key][1] # None

\* lines 139-142
MergeEntry(entry, res) ==
  IF Updatable(entry, res)
  THEN [entry EXCEPT !.demangled_name = res[entry.key][1],
                     !.bare_name = res[entry.key][2]]
  ELSE entry

\* lines 137-143
Merge(m, res) == [i \in 1..Len(m) |-> MergeEntry(m[i], res)]
CountProcessed(m, res) == Cardinality({i \in 1..Len(m) : Updatable(m[i], res)})

\* ------------------------------------------------------------------ inputs
S1 == <<"_", "Z", "1", "f">>
S2 == <<"_", "Z", "1", "g">>
S3 == <<"_", "Z", "?">>
S4 == <<"_", "Z", "!">>
S5 == <<" ">>
Symbols == {S1, S2, S3, S4, S5}
Text1 == <<"a", ":", ":", "f", "(", ")", "\n">>
Text2 == <<"b", ":", ":", "g", "[", "t", "]", "(", "a", ")", "\n">>

\* c++filt prints a symbol it cannot decode as it is
Echo(raw) == Ok(raw \o <<"\n">>)

\* a primitive that decodes S1 and S2, exits non-zero on S3, cannot be
\* launched on S4 and echoes the blank S5
Decoding ==
  [s \in Symbols |->
     IF s = S1 THEN Ok(Text1)
     ELSE IF s = S2 THEN Ok(Text2)
     ELSE IF s = S3 THEN CalledProcessError
     ELSE IF s = S4 THEN OSError
     ELSE Echo(s)]

\* c++filt is not installed
NotInstalled == [s \in Symbols |-> FileNotFoundError]

\* behaviours of the external primitive on the symbols of a run
Primitives == {Decoding, NotInstalled}

\* function_name of successive records, repeated cyclically
MixedPattern == <<Str(S1), Str(S2), Str(S3), Str(S4), Str(S5)>>
Patterns ==
  {<<Str(S1)>>,
   MixedPattern,
   <<Str(S3), Absent, Str(S1), Str(S1), Str(S4), Str(S1), Str(S1), Str(S1),
     Str(S1), Str(S1), Str(S2), Str(S1), Str(<<>>)>>,
   <<Str(<<>>), Str(S1), None, Str(S4), Absent>>}

InputOf(n, pat) == [i \in 1..n |-> Entry(i, pat[((i - 1) % Len(pat)) + 1])]

NotCalled == [kind |-> "notcalled", items |-> <<>>]

NormIdle ==
  /\ sym = <<>>
  /\ bare_result = NotCalled
  /\ entry_result = Result(NotCalled, NotCalled)
  /\ entry_demangled = NotCalled
  /\ invocations = 0

Init ==
  /\ \E c \in 1..MaxCpus : NUM_PROCESSES = Maximum(1, c - 1)
  /\ cxxfilt \in Primitives
  /\ \/ /\ input_status = "ok"
        /\ \E n \in 0..MaxRecords, pat \in Patterns : input_file = InputOf(n, pat)
     \/ /\ input_status \in {"missing", "malformed"}
        /\ input_file = <<>>
  /\ pc = "start"
  /\ mapping = <<>>
  /\ entries_to_process = <<>>
  /\ batches = <<>>
  /\ future = <<>>
  /\ collected = {}
  /\ next_item = <<>>
  /\ running = <<>>
  /\ batch_results = <<>>
  /\ results = EmptyDict
  /\ pbar = 0
  /\ entries_processed = 0
  /\ output_file = <<>>
  /\ writes = 0
  /\ ret = <<>>
  /\ NormIdle

\* ------------------------------------------------- process_mapping_file
\* lines 93-95 and 151-153: no input file, or not JSON
ReadFails ==
  /\ pc = "start"
  /\ input_status # "ok"
  /\ pc' = "returned"
  /\ ret' = <<FALSE, 0>>
  /\ UNCHANGED <<cxxfilt, NUM_PROCESSES, input_status, input_file, mapping,
                 entries_to_process, batches, future, collected, next_item, running,
                 batch_results, results, pbar, entries_processed, output_file,
                 writes, normVars>>

\* lines 97-110: load, prepare, and return at once when nothing is eligible
ReadNothingToProcess ==
  /\ pc = "start"
  /\ input_status = "ok"
  /\ PrepareEntries(input_file) = <<>>
  /\ mapping' = input_file
  /\ pc' = "returned"
  /\ ret' = <<TRUE, 0>>
  /\ UNCHANGED <<cxxfilt, NUM_PROCESSES, input_status, input_file,
                 entries_to_process, batches, future, collected, next_item, running,
                 batch_results, results, pbar, entries_processed, output_file,
                 writes, normVars>>

\* lines 97-123: load, prepare, partition and submit every batch
ReadAndSubmit ==
  /\ pc = "start"
  /\ input_status = "ok"
  /\ PrepareEntries(input_file) # <<>>
  /\ mapping' = input_file
  /\ entries_to_process' = PrepareEntries(input_file)
  /\ batches' = Batches(entries_to_process',
                        BatchSize(Len(entries_to_process'), NUM_PROCESSES))
  /\ future' = [b \in DOMAIN batches' |-> "pending"]
  /\ collected' = {}
  /\ next_item' = [b \in DOMAIN batches' |-> 0]
  /\ running' = [b \in DOMAIN batches' |-> {}]
  /\ batch_results' = [b \in DOMAIN batches' |-> EmptyDict]
  /\ results' = EmptyDict
  /\ pbar' = 0
  /\ pc' = "collecting"
  /\ UNCHANGED <<cxxfilt, NUM_PROCESSES, input_status, input_file,
                 entries_processed, output_file, writes, ret, normVars>>

\* ProcessPoolExecutor(max_workers=NUM_PROCESSES): a free worker takes the
\* oldest pending batch and calls process_batch
StartBatch(b) ==
  /\ pc = "collecting"
  /\ future[b] = "pending"
  /\ \A c \in 1..(b - 1) : future[c] # "pending"
  /\ Cardinality({c \in DOMAIN future : future[c] = "running"}) < NUM_PROCESSES
  /\ future' = [future EXCEPT ![b] = "running"]
  /\ UNCHANGED <<cxxfilt, NUM_PROCESSES, pc, input_status, input_file, mapping,
                 entries_to_process, batches, collected, next_item, running, batch_results,
                 results, pbar, entries_processed, output_file, writes, ret,
                 normVars>>

\* one thread more than max_workers
ThreadAvailableOneMore(active) == active <= NUM_THREADS_PER_PROCESS

\* ThreadPoolExecutor(max_workers=NUM_THREADS_PER_PROCESS), line 38
ThreadAvailable(active) == active < NUM_THREADS_PER_PROCESS

\* process_batch, lines 38-42: a thread of the batch's pool takes the next item
StartItem(b) ==
  /\ pc = "collecting"
  /\ future[b] = "running"
  /\ next_item[b] < Len(batches[b])
  /\ ThreadAvailable(Cardinality(running[b]))
  /\ next_item' = [next_item EXCEPT ![b] = @ + 1]
  /\ running' = [running EXCEPT ![b] = @ \cup {next_item[b] + 1}]
  /\ UNCHANGED <<cxxfilt, NUM_PROCESSES, pc, input_status, input_file, mapping,
                 entries_to_process, batches, future, collected, batch_results, results,
                 pbar, entries_processed, output_file, writes, ret, normVars>>

\* process_batch, lines 44-50: an item's process_entry ends and as_completed
\* hands its future to the loop, which stores the entry
FinishItem(b, i) ==
  /\ pc = "collecting"
  /\ future[b] = "running"
  /\ i \in running[b]
  /\ running' = [running EXCEPT ![b] = @ \ {i}]
  /\ batch_results' =
       [batch_results EXCEPT ![b] =
          Update(@, [k \in {batches[b][i][1]} |->
                       Only({CollectEntry(r) :
                               r \in {process_entry(fn) : fn \in {batches[b][i][2]}}})])]
  /\ UNCHANGED <<cxxfilt, NUM_PROCESSES, pc, input_status, input_file, mapping,
                 entries_to_process, batches, future, collected, next_item, results, pbar,
                 entries_processed, output_file, writes, ret, normVars>>

\* process_batch, line 52: every future of the batch was collected
ReturnBatch(b) ==
  /\ pc = "collecting"
  /\ future[b] = "running"
  /\ next_item[b] = Len(batches[b])
  /\ running[b] = {}
  /\ future' = [future EXCEPT ![b] = "finished"]
  /\ UNCHANGED <<cxxfilt, NUM_PROCESSES, pc, input_status, input_file, mapping,
                 entries_to_process, batches, collected, next_item, running, batch_results,
                 results, pbar, entries_processed, output_file, writes, ret,
                 normVars>>

\* the task of a batch raises (its worker dies, a thread cannot be started):
\* the future carries an exception and the local results are lost
BatchFault(b) ==
  /\ pc = "collecting"
  /\ future[b] = "running"
  /\ future' = [future EXCEPT ![b] = "failed"]
  /\ next_item' = [next_item EXCEPT ![b] = 0]
  /\ running' = [running EXCEPT ![b] = {}]
  /\ batch_results' = [batch_results EXCEPT ![b] = EmptyDict]
  /\ UNCHANGED <<cxxfilt, NUM_PROCESSES, pc, input_status, input_file, mapping,
                 entries_to_process, batches, collected, results, pbar,
                 entries_processed, output_file, writes, ret, normVars>>

\* the batch's dict replaces the global one
CollectResultsReplacing(res, local) == local

\* lines 129-131: the global results after a batch that returned
CollectResults(res, local) == Update(res, local)

\* only a future that holds a result is yielded
FutureDoneWithResult(state) == state = "finished"

\* as_completed, line 126: a future is done when it has a result or an exception
FutureDone(state) == state \in {"finished", "failed"}

\* the bar advances by one per batch
PbarUpdateByOne(count, batch_size) == count + 1

\* pbar.update(batch_size), lines 131 and 134
PbarUpdate(count, batch_size) == count + batch_size

\* lines 126-134: as_completed yields a future that is done
Collect(b) ==
  /\ pc = "collecting"
  /\ b \notin collected
  /\ FutureDone(future[b])
  /\ results' = IF future[b] = "finished"
                THEN CollectResults(results, batch_results[b])
                ELSE results
  /\ pbar' = PbarUpdate(pbar, Len(batches[b]))
  /\ collected' = collected \cup {b}
  /\ UNCHANGED <<cxxfilt, NUM_PROCESSES, pc, input_status, input_file, mapping,
                 entries_to_process, batches, future, next_item, running, batch_results,
                 entries_processed, output_file, writes, ret, normVars>>

AllCollected == collected = DOMAIN future

\* lines 136-149: merge, write the output file, return
MergeAndWrite ==
  /\ pc = "collecting"
  /\ AllCollected
  /\ mapping' = Merge(mapping, results)
  /\ entries_processed' = CountProcessed(mapping, results)
  /\ output_file' = mapping'
  /\ writes' = writes + 1
  /\ ret' = <<TRUE, entries_processed'>>
  /\ pc' = "returned"
  /\ UNCHANGED <<cxxfilt, NUM_PROCESSES, input_status, input_file,
                 entries_to_process, batches, future, collected, next_item, running,
                 batch_results, results, pbar, normVars>>

\* lines 136-147 and 154-156: the merge is done, open() or json.dump raises
MergeWriteFails ==
  /\ pc = "collecting"
  /\ AllCollected
  /\ mapping' = Merge(mapping, results)
  /\ entries_processed' = CountProcessed(mapping, results)
  /\ ret' = <<FALSE, 0>>
  /\ pc' = "returned"
  /\ UNCHANGED <<cxxfilt, NUM_PROCESSES, input_status, input_file,
                 entries_to_process, batches, future, collected, next_item, running,
                 batch_results, results, pbar, output_file, writes, normVars>>

Next ==
  \/ ReadFails
  \/ ReadNothingToProcess
  \/ ReadAndSubmit
  \/ \E b \in DOMAIN future : StartBatch(b)
  \/ \E b \in DOMAIN future : StartItem(b)
  \/ \E b \in DOMAIN future : \E i \in running[b] : FinishItem(b, i)
  \/ \E b \in DOMAIN future : ReturnBatch(b)
  \/ \E b \in DOMAIN future : BatchFault(b)
  \/ \E b \in DOMAIN future : Collect(b)
  \/ MergeAndWrite
  \/ MergeWriteFails

Spec == Init /\ [][Next]_vars

\* the pools keep scheduling and every primitive call returns: a step that
\* can be taken is eventually taken
FairInit ==
  /\ Init
  /\ cxxfilt = Decoding
  /\ \/ Len(input_file) <= 2
     \/ input_file = InputOf(MinBatchSize + 1, MixedPattern)

FairSpec == FairInit /\ [][Next]_vars /\ WF_vars(Next)

\* ------------------------------------------------ the normalizer harness
\* raw symbols and decoded texts of demangle.py's sample list
SymF == <<"_", "Z", "1", "f", "v">>
TextF == <<"f", "(", ")">>
SymIsPrime == <<"_", "Z", "N", "9", "S", "t", "a", "t", "i", "c", "L", "i", "b", "7", "i", "s", "P", "r", "i", "m", "e", "E", "i">>
TextIsPrime == <<"S", "t", "a", "t", "i", "c", "L", "i", "b", ":", ":", "i", "s", "P", "r", "i", "m", "e", "(", "i", "n", "t", ")">>
SymProcessNode == <<"_", "Z", "1", "1", "p", "r", "o", "c", "e", "s", "s", "N", "o", "d", "e", "B", "5", "c", "x", "x", "1", "1", "1", "1", "N", "o", "d", "e", "_", "c", "y", "c", "l", "i", "c">>
TextProcessNode == <<"p", "r", "o", "c", "e", "s", "s", "N", "o", "d", "e", "[", "a", "b", "i", ":", "c", "x", "x", "1", "1", "]", "(", "N", "o", "d", "e", "_", "c", "y", "c", "l", "i", "c", ")">>
SymNested == <<"_", "Z", "1", "f", "N", "1", "N", "1", "T", "E">>
TextNested == <<"f", "(", "N", ":", ":", "T", ")">>
SamplePairs ==
  {<<SymF, Ok(TextF \o <<"\n">>)>>,
   <<SymIsPrime, Ok(TextIsPrime \o <<"\n">>)>>,
   <<SymProcessNode, Ok(TextProcessNode \o <<"\n">>)>>,
   <<SymNested, Ok(TextNested \o <<"\n">>)>>}

\* a decoded text with a line break inside a parameter list
TextBrokenLine == <<"(", "<", "\n", ">", ")">>
EdgeTexts == {TextBrokenLine}

Chars == {"a", ":", "(", ")", "<", ">", "[", "]", " ", "\n"}
Texts == UNION {[1..k -> Chars] : k \in 0..MaxLen}

OrchIdle ==
  /\ NUM_PROCESSES = 1
  /\ pc = "idle"
  /\ input_status = "ok"
  /\ input_file = <<>>
  /\ mapping = <<>>
  /\ entries_to_process = <<>>
  /\ batches = <<>>
  /\ future = <<>>
  /\ collected = {}
  /\ next_item = <<>>
  /\ running = <<>>
  /\ batch_results = <<>>
  /\ results = EmptyDict
  /\ pbar = 0
  /\ entries_processed = 0
  /\ output_file = <<>>
  /\ writes = 0
  /\ ret = <<>>

NormInit ==
  /\ OrchIdle
  /\ \E raw \in (Texts \ {<<>>}) \cup {p[1] : p \in SamplePairs} :
       /\ sym = raw
       /\ \E out \in {CalledProcessError}
                      \cup (IF Len(raw) = 1 THEN {Echo(raw)} ELSE {})
                      \cup {p[2] : p \in {q \in SamplePairs : q[1] = raw}}
                      \cup (IF raw = SymF
                            THEN {Ok(t) : t \in Texts \cup EdgeTexts}
                                 \cup {FileNotFoundError, OSError}
                            ELSE {}) :
            cxxfilt = [s \in {raw} |-> out]
  /\ bare_result = NotCalled
  /\ entry_result = Result(NotCalled, NotCalled)
  /\ entry_demangled = NotCalled
  /\ invocations = 0

CallGetBare ==
  /\ pc = "idle"
  /\ bare_result = NotCalled
  /\ bare_result' = get_bare_function_name(sym)
  /\ UNCHANGED <<cxxfilt, orchVars, sym, entry_result, entry_demangled, invocations>>

CallProcessEntry ==
  /\ pc = "idle"
  /\ entry_result = Result(NotCalled, NotCalled)
  /\ entry_result' = process_entry(sym)
  /\ UNCHANGED <<cxxfilt, orchVars, sym, bare_result, entry_demangled, invocations>>

NormNext == CallGetBare \/ CallProcessEntry

NormSpec == NormInit /\ [][NormNext]_vars

\* ------------------------------------------ batch sizing of larger runs
\* lines 101-107: total_entries eligible items were prepared
SizingInit ==
  /\ \E c \in 1..MaxCpus : NUM_PROCESSES = Maximum(1, c - 1)
  /\ cxxfilt = Decoding
  /\ pc = "prepared"
  /\ input_status = "ok"
  /\ \E total_entries \in 1..MaxTotal :
       /\ input_file = InputOf(total_entries, <<Str(S1)>>)
       /\ mapping = input_file
       /\ entries_to_process = PrepareEntries(input_file)
  /\ batches = <<>>
  /\ future = <<>>
  /\ collected = {}
  /\ next_item = <<>>
  /\ running = <<>>
  /\ batch_results = <<>>
  /\ results = EmptyDict
  /\ pbar = 0
  /\ entries_processed = 0
  /\ output_file = <<>>
  /\ writes = 0
  /\ ret = <<>>
  /\ NormIdle

\* lines 112-114: the batch size and the slices
Partition ==
  /\ pc = "prepared"
  /\ batches' = Batches(entries_to_process,
                        BatchSize(Len(entries_to_process), NUM_PROCESSES))
  /\ pc' = "partitioned"
  /\ UNCHANGED <<cxxfilt, NUM_PROCESSES, input_status, input_file, mapping,
                 entries_to_process, future, collected, next_item, running,
                 batch_results, results, pbar, entries_processed, output_file,
                 writes, ret, normVars>>

SizingSpec == SizingInit /\ [][Partition]_vars

\* ------------------------------- process_entry with a primitive that varies
\* a primitive that gives the same outcome on every symbol
Always(out) == [s \in Symbols |-> out]

\* what c++filt may do at one moment of a run
FlakyPrimitives ==
  {Decoding, NotInstalled, Always(Ok(Text1)), Always(Ok(Text2)),
   Always(CalledProcessError), Always(OSError)}

FlakyInit ==
  /\ OrchIdle
  /\ cxxfilt \in FlakyPrimitives
  /\ sym \in Symbols \cup {<<>>}
  /\ bare_result = NotCalled
  /\ entry_result = Result(NotCalled, NotCalled)
  /\ entry_demangled = NotCalled
  /\ invocations = 0

\* process_entry, lines 22-28: the empty-name return, or the first run of
\* c++filt and the fallback to the raw name
EntryDemangle ==
  /\ pc = "idle"
  /\ entry_result = Result(NotCalled, NotCalled)
  /\ entry_demangled = NotCalled
  /\ IF sym = <<>>
     THEN /\ entry_result' = FailureResult
          /\ UNCHANGED <<entry_demangled, invocations>>
     ELSE /\ invocations' = invocations + 1
          /\ \E d \in {demangle_with_cxxfilt(sym)} :
               IF d = Raise
               THEN entry_result' = RaisedResult /\ entry_demangled' = Raise
               ELSE /\ entry_demangled' = IF d = None THEN Str(sym) ELSE d
                    /\ UNCHANGED entry_result
  /\ UNCHANGED <<cxxfilt, orchVars, sym, bare_result>>

\* between the two runs of c++filt its behaviour changes (the binary is
\* installed or removed, the machine runs out of processes)
PrimitiveChanges ==
  /\ pc = "idle"
  /\ invocations = 1
  /\ entry_result = Result(NotCalled, NotCalled)
  /\ cxxfilt' \in FlakyPrimitives \ {cxxfilt}
  /\ UNCHANGED <<orchVars, normVars>>

\* process_entry, lines 31-33: get_bare_function_name runs c++filt again
\* (demangle.py line 46)
EntryBare ==
  /\ pc = "idle"
  /\ invocations = 1
  /\ entry_result = Result(NotCalled, NotCalled)
  /\ invocations' = invocations + 1
  /\ \E bare_name \in {get_bare_function_name(sym)} :
       entry_result' = IF bare_name = Raise THEN RaisedResult
                       ELSE Result(entry_demangled, bare_name)
  /\ UNCHANGED <<cxxfilt, orchVars, sym, bare_result, entry_demangled>>

FlakyNext == EntryDemangle \/ PrimitiveChanges \/ EntryBare

FlakySpec == FlakyInit /\ [][FlakyNext]_vars


\* ================================================================= claims
RECURSIVE Flatten(_)
Flatten(ss) == IF ss = <<>> THEN <<>> ELSE Head(ss) \o Flatten(Tail(ss))

Loaded == pc \in {"collecting", "returned"} /\ input_status = "ok"

\* the raw symbol of a record is empty or absent
RawSymbolMissing(entry) ==
  \/ entry.function_name.kind # "str"
  \/ Len(entry.function_name.items[1]) = 0

EligibleKeys == {input_file[i].key : i \in {j \in 1..Len(input_file) : ~RawSymbolMissing(input_file[j])}}

\* the batch positions that hold the item of key k
PositionsOf(k) ==
  {bj \in UNION {{<<b, j>> : j \in 1..Len(batches[b])} : b \in DOMAIN batches} :
     batches[bj[1]][bj[2]][1] = k}

\* C1: once the run has partitioned a non-empty WorkItem sequence, the
\* batches are non-empty, their concatenation in order is the WorkItem
\* sequence, and every eligible record's item sits at exactly one place of
\* exactly one batch.
C1_Partition ==
  (Loaded /\ EligibleKeys # {}) =>
     /\ Flatten(batches) = entries_to_process
     /\ \A b \in DOMAIN batches : Len(batches[b]) >= 1
     /\ \A k \in EligibleKeys : Cardinality(PositionsOf(k)) = 1
     /\ \A b \in DOMAIN batches : \A j \in 1..Len(batches[b]) :
          batches[b][j][1] \in EligibleKeys

\* two batches, the last one shorter, and an ineligible record in the input
C1_Witness ==
  /\ pc = "collecting"
  /\ Len(batches) = 2
  /\ Len(batches[2]) < Len(batches[1])
  /\ \E i \in 1..Len(input_file) : RawSymbolMissing(input_file[i])

\* C2: when every batch has been collected the global ResultMap has exactly
\* one entry per eligible WorkItem.
C2_ResultMapSize ==
  (pc = "collecting" /\ AllCollected) =>
     Cardinality(DOMAIN results) = Cardinality(EligibleKeys)

NonFailure(k) == k \in DOMAIN results /\ results[k][1] # None

Merged == pc = "returned" /\ input_status = "ok"

\* C3: after the merge a record carries both derived fields, with the values
\* of its Result, exactly when its key has a non-failure Result in the global
\* ResultMap; every other record has neither field; and the count returned
\* is the number of records updated.
C3_MergeCorrect ==
  Merged =>
     /\ \A i \in 1..Len(mapping) :
          LET e == mapping[i]
          IN IF NonFailure(e.key)
             THEN /\ e.demangled_name = results[e.key][1]
                  /\ e.bare_name = results[e.key][2]
                  /\ e.demangled_name # Absent
                  /\ e.bare_name # Absent
             ELSE e.demangled_name = Absent /\ e.bare_name = Absent
     /\ entries_processed =
          Cardinality({i \in 1..Len(mapping) : mapping[i].demangled_name # Absent})
     /\ ret[1] => ret[2] = entries_processed

\* the merge has updated a record, left a failed one and one that is missing
\* from the ResultMap, and the run returned its count
C3_Witness ==
  /\ Merged
  /\ ret[1]
  /\ \E i \in 1..Len(mapping) : NonFailure(mapping[i].key)
  /\ \E k \in DOMAIN results : results[k][1] = None
  /\ \E k \in EligibleKeys : k \notin DOMAIN results

Keys(m) == [i \in 1..Len(m) |-> m[i].key]

\* C4: the loaded RecordSet and the written output keep the input's keys in
\* the input's order; a record with an empty or absent raw symbol is in no
\* batch and no ResultMap, stays as it was in the input, and is not counted.
C4_Frame ==
  Loaded =>
     /\ Keys(mapping) = Keys(input_file)
     /\ writes > 0 => Keys(output_file) = Keys(input_file)
     /\ \A i \in 1..Len(input_file) :
          RawSymbolMissing(input_file[i]) =>
             /\ mapping[i] = input_file[i]
             /\ writes > 0 => output_file[i] = input_file[i]
             /\ PositionsOf(input_file[i].key) = {}
             /\ input_file[i].key \notin DOMAIN results
             /\ \A b \in DOMAIN batch_results :
                  input_file[i].key \notin DOMAIN batch_results[b]
     /\ (pc = "returned" /\ ret[1]) =>
          ret[2] = Cardinality({i \in 1..Len(input_file) :
                                  /\ ~RawSymbolMissing(input_file[i])
                                  /\ mapping[i] # input_file[i]})

\* the output was written for an input holding a record without a symbol
\* and a record with an empty one, and some record was updated
C4_Witness ==
  /\ pc = "returned"
  /\ writes = 1
  /\ ret[2] > 0
  /\ \E i \in 1..Len(input_file) : input_file[i].function_name.kind # "str"
  /\ \E i \in 1..Len(input_file) : input_file[i].function_name = Str(<<>>)

EntryCalled == entry_result # Result(NotCalled, NotCalled)
EntrySucceeded == EntryCalled /\ entry_result[1].kind = "str"
PrimitiveFailed(s) == cxxfilt[s].exit \in {"CalledProcessError", "FileNotFoundError"}
PrimitiveReturned(s) == cxxfilt[s].exit = "ok" \/ PrimitiveFailed(s)

\* C5: the Result process_entry returns for an eligible item is a pair
\* (fullName, bareName) whose bareName is the string the reduction of that
\* fullName gives.
C5_ResultIsPair ==
  EntrySucceeded =>
     /\ entry_result[2].kind = "str"
     /\ entry_result[2].items[1] = BareOf(entry_result[1].items[1])

\* the Result stored for item j of batch b
StoredResult(b, j) == batch_results[b][batches[b][j][1]]
Stored(b, j) == batches[b][j][1] \in DOMAIN batch_results[b]

\* C6: a key whose primitive call failed has the Result (raw, raw), and the
\* other keys of its batch have their successful Result.
C6_FailureFallsBack ==
  \A b \in DOMAIN batches : \A j \in 1..Len(batches[b]) :
     Stored(b, j) =>
        LET raw == batches[b][j][2]
        IN /\ PrimitiveFailed(raw) =>
                StoredResult(b, j) = Result(Str(raw), Str(raw))
           /\ cxxfilt[raw].exit = "ok" =>
                StoredResult(b, j)[1] = Str(Strip(cxxfilt[raw].stdout))

\* C7: whatever the primitive returns for a non-empty raw symbol, failure or
\* any text, the Result has a non-empty fullName.
C7_FullNameNonEmpty ==
  (EntryCalled /\ PrimitiveReturned(sym)) =>
     /\ entry_result[1].kind = "str"
     /\ entry_result[1].items[1] # <<>>

BareCalled == bare_result.kind = "tuple"
FullName == bare_result.items[1]
BareName == bare_result.items[2]

\* C8: the bareName get_bare_function_name returns is never empty.
C8_BareNameNonEmpty == BareCalled => BareName # <<>>

\* C9 as stated: stages 2-4 and the trim leave every returned bareName as
\* it is.
C9_IdempotentAlways == BareCalled => Reduce234(BareName) = BareName

OneLine(s) == \A i \in 1..Len(s) : s[i] # "\n"
ReductionOf(full) == Reduce234(StripQualification(full))

\* C9, amended: a bareName that the reduction itself produced (it was not
\* empty, so the fullName was not substituted) from a fullName without a line
\* break is left as it is by stages 2-4 and the trim.
C9_IdempotentReduced ==
  (BareCalled /\ OneLine(FullName) /\ ReductionOf(FullName) # <<>>) =>
     Reduce234(BareName) = BareName

\* the reduction removed template arguments and the result is not empty
C9_Witness ==
  /\ BareCalled
  /\ OneLine(FullName)
  /\ ReductionOf(FullName) # <<>>
  /\ BareName # FullName
  /\ \E i \in 1..Len(FullName) : FullName[i] = "<"

\* the entries of the items of the batches whose task returned, computed
\* item by item in the order of the input
ItemsOf(b) == {batches[b][j] : j \in 1..Len(batches[b])}
ReturnedItems == UNION {ItemsOf(b) : b \in {c \in DOMAIN future : future[c] = "finished"}}
ResultsInInputOrder ==
  [k \in {it[1] : it \in ReturnedItems} |->
     LET it == CHOOSE x \in ReturnedItems : x[1] = k
     IN CollectEntry(process_entry(it[2]))]

\* C10: when every batch has been collected, the global ResultMap is the one
\* the input, the primitive and the set of batches that returned determine,
\* whatever order items and batches completed in; the written output is its
\* merge into the input.
C10_Deterministic ==
  /\ (pc \in {"collecting", "returned"} /\ AllCollected) =>
        results = ResultsInInputOrder
  /\ writes > 0 => output_file = Merge(input_file, ResultsInInputOrder)

\* two batches returned, the second one collected before the first
C10_Witness ==
  /\ pc = "collecting"
  /\ Len(batches) = 2
  /\ collected = {2}
  /\ future[1] = "finished"
  /\ future[2] = "finished"
  /\ Cardinality(DOMAIN batch_results[1]) = Len(batches[1])


KeysOfBatch(b) == {batches[b][j][1] : j \in 1..Len(batches[b])}

\* C11: once the Orchestrator has collected a batch whose future failed,
\* every WorkItem of that batch is in the global ResultMap with the failure
\* marker.
C11_FaultRecorded ==
  \A b \in collected :
     future[b] = "failed" =>
        \A k \in KeysOfBatch(b) : k \in DOMAIN results /\ results[k] = FailureResult

\* the primitive's call for this raw symbol ends in an exception that
\* demangle_with_cxxfilt does not catch
PrimitiveRaises(raw) == ~PrimitiveReturned(raw)

\* C12: in the local ResultMap of a batch, an item whose Item Worker raised
\* has the failure Result (None, None) and every other stored item has a
\* Result with a fullName; a batch that returned has exactly one entry per
\* item, for its own keys only.
C12_ItemFaultIsolated ==
  \A b \in DOMAIN batches :
     /\ DOMAIN batch_results[b] \subseteq KeysOfBatch(b)
     /\ \A j \in 1..Len(batches[b]) :
          Stored(b, j) =>
             IF PrimitiveRaises(batches[b][j][2])
             THEN StoredResult(b, j) = FailureResult
             ELSE StoredResult(b, j)[1].kind = "str"
     /\ future[b] = "finished" =>
          /\ DOMAIN batch_results[b] = KeysOfBatch(b)
          /\ Cardinality(DOMAIN batch_results[b]) = Len(batches[b])

\* a batch returned with an item that raised and a sibling that succeeded
C12_Witness ==
  \E b \in DOMAIN batches :
     /\ future[b] = "finished"
     /\ \E j \in 1..Len(batches[b]) : StoredResult(b, j) = FailureResult
     /\ \E j \in 1..Len(batches[b]) : StoredResult(b, j)[1].kind = "str"

RECURSIVE SumLen(_, _)
SumLen(ss, B) ==
  IF B = {} THEN 0
  ELSE LET b == CHOOSE x \in B : TRUE IN Len(ss[b]) + SumLen(ss, B \ {b})

ProgressAccounted ==
  /\ pbar = SumLen(batches, collected)
  /\ pbar <= Cardinality(EligibleKeys)
  /\ (pc = "collecting" /\ AllCollected) => pbar = Cardinality(EligibleKeys)

\* C13: the progress counter is the sum of the item counts of the batches
\* reported so far, failed or not, never exceeds the number of eligible
\* WorkItems, equals it when every batch has reported, and no step lowers it.
C13_Progress == []ProgressAccounted /\ [][pbar' >= pbar]_vars

\* every batch has reported, one of them with a failed future, and the
\* counter is at the total
C13_Witness ==
  /\ pc = "collecting"
  /\ AllCollected
  /\ Len(batches) = 2
  /\ future[1] = "failed"
  /\ future[2] = "finished"
  /\ pbar = Len(entries_to_process)

RunningBatches == {b \in DOMAIN future : future[b] = "running"}
InFlight == SumLen([b \in DOMAIN running |-> [i \in 1..Cardinality(running[b]) |-> i]],
                   DOMAIN running)

\* C14: at most P batches run at once, each has at most T items in
\* progress, and at most P * T items are in progress in all.
C14_BoundedConcurrency ==
  /\ Cardinality(RunningBatches) <= NUM_PROCESSES
  /\ \A b \in DOMAIN running : Cardinality(running[b]) <= NUM_THREADS_PER_PROCESS
  /\ \A b \in DOMAIN running : running[b] # {} => b \in RunningBatches
  /\ InFlight <= NUM_PROCESSES * NUM_THREADS_PER_PROCESS

\* two batches run at once, one with all its threads busy while items wait
C14_Witness ==
  /\ Cardinality(RunningBatches) = 2
  /\ NUM_PROCESSES = 2
  /\ \E b \in RunningBatches :
       /\ Cardinality(running[b]) = NUM_THREADS_PER_PROCESS
       /\ next_item[b] < Len(batches[b])
  /\ InFlight > NUM_THREADS_PER_PROCESS

ResultKeysEligible == DOMAIN results \subseteq EligibleKeys

\* C19: every key of the global ResultMap is the key of an input record with
\* a non-empty raw symbol, and no step removes or changes an entry of the
\* ResultMap.
C19_ResultMapGrows ==
  /\ []ResultKeysEligible
  /\ [][\A k \in DOMAIN results : k \in DOMAIN results' /\ results'[k] = results[k]]_vars

\* the ResultMap holds the entries of a first batch and a second batch has
\* just been merged into it
C19_Witness ==
  /\ pc = "collecting"
  /\ Len(batches) = 2
  /\ collected = {1, 2}
  /\ future[1] = "finished"
  /\ future[2] = "finished"
  /\ DOMAIN results = EligibleKeys


Returned == pc = "returned"

\* C15: under fair scheduling every run that was dispatched comes to the
\* point where all batches have reported, and returns; item faults and batch
\* faults do not stop it.
C15_Completion ==
  (pc = "collecting") ~> (Returned /\ AllCollected)

\* a run returned after an item fault in a batch that returned and the fault
\* of another batch
C15_Witness ==
  /\ Returned
  /\ Len(batches) = 2
  /\ \E b \in DOMAIN future : future[b] = "failed"
  /\ \E k \in DOMAIN results : results[k] = FailureResult

\* C16: a run that reports success has written the merged records to the
\* output file exactly once when it returns, also when no record is eligible.
C16_EmittedOnce ==
  (Returned /\ ret[1]) => (writes = 1 /\ output_file = mapping)

\* C17: processing an eligible item runs the primitive once, and the
\* bareName of its Result is the reduction of the fullName of the same
\* Result, also when the primitive's outcome differs between runs.
C17_SingleInvocation ==
  EntrySucceeded =>
     /\ invocations = 1
     /\ entry_result[2].kind = "tuple"
     /\ entry_result[2].items[2] = BareOf(entry_result[1].items[1])

\* positions of "(" and of "::" in a text
ParenAt(s) == {i \in 1..Len(s) : s[i] = "("}
ScopeAt(s) == {i \in 1..(Len(s) - 1) : s[i] = ":" /\ s[i+1] = ":"}

\* the text has a "::" and every "::" of it is after its first "("
QualifierOnlyInParams(s) ==
  /\ ParenAt(s) # {}
  /\ ScopeAt(s) # {}
  /\ \A i \in ScopeAt(s) : i > SetMin(ParenAt(s))

Partitioned == pc = "partitioned"

\* C20 as stated: a run with at least one eligible item gets more batches
\* than there are processes.
C20_MoreBatchesThanProcesses ==
  Partitioned => Len(batches) > NUM_PROCESSES

\* C20, amended: the number of batches is greater than P exactly when the
\* run has more than minBatchSize * P eligible items.
C20_BatchCount ==
  Partitioned =>
     (Len(batches) > NUM_PROCESSES
        <=> Len(entries_to_process) > MinBatchSize * NUM_PROCESSES)

\* a run large enough for a batch size above the minimum, with more batches
\* than processes
C20_Witness ==
  /\ Partitioned
  /\ NUM_PROCESSES = 2
  /\ Len(batches[1]) > MinBatchSize
  /\ Len(batches) > NUM_PROCESSES

====
